---- MODULE Spec2Model ----
(***************************************************************************)
(* A model of flipperpuzzle.py: the Challenge object (its fields and its   *)
(* three methods is_solved, flip_nth and dumbsolver) and signs2bool.       *)
(*                                                                         *)
(* A Python list is a TLA+ sequence; the Python index k (0-based) is the   *)
(* element k + 1 of the sequence.  A sign string is a sequence of          *)
(* one-character strings.  The value None is the empty tuple and the       *)
(* integer k held by Challenge.solution is the tuple <<k>>.                *)
(***************************************************************************)
EXTENDS Integers, Sequences, FiniteSets, TLC

\* Longest sign string handed to Challenge.
MaxLen == 3
\* Most flip_nth calls the caller makes directly on one instance.
MaxCalls == 2

\* The characters of a sign string: the two signs and one invalid character.
Signs == {"+", "-", "x"}

\* Sign strings of length at most MaxLen.
SignStrings == UNION {[1..n -> Signs] : n \in 0..MaxLen}

\* Flipper widths handed to Challenge: 0 (parse_line accepts "0"), the widths
\* that fit every length, and one width wider than the longest string.
Widths == 0..(MaxLen + 1)

\* Python's None, and an int held in a field that may also hold None.
None == << >>

Int_(k) == <<k>>

\* The loop of dumbsolver is cut off here; the code itself never gets there.
MaxIters == 2 ^ MaxLen + 2

VARIABLES
    self,      \* the Challenge instance: flipw, cstate, npan, states, nflips, solution
    pc,        \* "idle": no method is running; "while": inside dumbsolver's loop
    start,     \* the sign string the instance was constructed from
    call,      \* the method that ran last, and the index it handed to flip_nth (-1: none)
    iters,     \* iterations of the while loop in the current (or last) dumbsolver call
    nmanual,   \* flip_nth calls made directly by the caller
    ncalls,    \* flip_nth calls made so far, by the caller or by dumbsolver
    nreal      \* those of them whose run of flipw pancakes fitted (nth + flipw <= npan)

vars == <<self, pc, start, call, iters, nmanual, ncalls, nreal>>

----------------------------------------------------------------------------
\* Python built-ins used by the code.

\* all(seq)
All(seq) == \A i \in 1..Len(seq) : seq[i]

\* A slice bound, normalised as Python does for a list of length n.
PyClamp(i, n) ==
    IF i < 0 THEN (IF i + n < 0 THEN 0 ELSE i + n)
    ELSE (IF i > n THEN n ELSE i)

\* seq[a:b]
Slice(seq, a, b) ==
    LET lo == PyClamp(a, Len(seq))
        hi == PyClamp(b, Len(seq))
    IN  IF hi <= lo THEN << >> ELSE [i \in 1..(hi - lo) |-> seq[lo + i]]


\* index returning the last occurrence instead of the first.
Index_last(seq, v) ==
    CHOOSE i \in 0..(Len(seq) - 1) :
        /\ seq[i + 1] = v
        /\ \A j \in (i + 1)..(Len(seq) - 1) : seq[j + 1] # v

\* seq.index(v), for a v that occurs in seq
Index(seq, v) ==
    CHOOSE i \in 0..(Len(seq) - 1) :
        /\ seq[i + 1] = v
        /\ \A j \in 0..(i - 1) : seq[j + 1] # v

\* x in seq
In(x, seq) == \E i \in 1..Len(seq) : seq[i] = x

----------------------------------------------------------------------------
\* signs2bool: the loop over the characters, bools being the list built so far.
RECURSIVE signs2boolFrom(_, _)
signs2boolFrom(signs, bools) ==
    IF signs = << >> THEN bools
    ELSE LET sign == Head(signs)
         IN  IF sign = "+" THEN signs2boolFrom(Tail(signs), Append(bools, TRUE))
             ELSE IF sign = "-" THEN signs2boolFrom(Tail(signs), Append(bools, FALSE))
             ELSE signs2boolFrom(Tail(signs), bools)


\* signs2bool appending False for a character that is no sign, instead of
\* skipping it.
signs2bool_noskip(signs) == [i \in 1..Len(signs) |-> signs[i] = "+"]

signs2bool(signs) == signs2boolFrom(signs, << >>)

----------------------------------------------------------------------------
\* Challenge.is_solved: the instance afterwards and the value returned
\* (Python returns None when not solved; it is only ever tested for truth).
is_solved(s) ==
    IF All(s.cstate)
    THEN [self |-> [s EXCEPT !.solution = Int_(s.nflips)], ret |-> TRUE]
    ELSE [self |-> s, ret |-> FALSE]

\* flip_nth with the slice one pancake too long.
flip_nth_wide(s, nth) ==
    IF s.npan - nth < s.flipw
    THEN [s EXCEPT !.states = Append(@, s.cstate)]
    ELSE LET sl == Slice(s.cstate, nth, nth + s.flipw + 1)
             cs == [i \in 1..Len(s.cstate) |->
                       IF nth <= i - 1 /\ i - 1 < nth + Len(sl)
                       THEN ~ sl[i - nth]
                       ELSE s.cstate[i]]
         IN  [s EXCEPT !.cstate = cs, !.nflips = @ + 1, !.states = Append(@, cs)]

\* flip_nth writing at ix instead of nth + ix.
flip_nth_nooffset(s, nth) ==
    IF s.npan - nth < s.flipw
    THEN [s EXCEPT !.states = Append(@, s.cstate)]
    ELSE LET sl == Slice(s.cstate, nth, nth + s.flipw)
             cs == [i \in 1..Len(s.cstate) |->
                       IF 0 <= i - 1 /\ i - 1 < Len(sl)
                       THEN ~ sl[i]
                       ELSE s.cstate[i]]
         IN  [s EXCEPT !.cstate = cs, !.nflips = @ + 1, !.states = Append(@, cs)]

\* flip_nth counting the attempt even when the flipper runs past the edge.
flip_nth_counting(s, nth) ==
    IF s.npan - nth < s.flipw
    THEN [s EXCEPT !.nflips = @ + 1, !.states = Append(@, s.cstate)]
    ELSE LET sl == Slice(s.cstate, nth, nth + s.flipw)
             cs == [i \in 1..Len(s.cstate) |->
                       IF nth <= i - 1 /\ i - 1 < nth + Len(sl)
                       THEN ~ sl[i - nth]
                       ELSE s.cstate[i]]
         IN  [s EXCEPT !.cstate = cs, !.nflips = @ + 1, !.states = Append(@, cs)]


\* flip_nth letting the flipper hang one pancake over the right edge.
flip_nth_pastedge(s, nth) ==
    IF s.npan - nth < s.flipw - 1
    THEN [s EXCEPT !.states = Append(@, s.cstate)]
    ELSE LET sl == Slice(s.cstate, nth, nth + s.flipw)
             cs == [i \in 1..Len(s.cstate) |->
                       IF nth <= i - 1 /\ i - 1 < nth + Len(sl)
                       THEN ~ sl[i - nth]
                       ELSE s.cstate[i]]
         IN  [s EXCEPT !.cstate = cs, !.nflips = @ + 1, !.states = Append(@, cs)]


\* flip_nth recording a snapshot only when it really flipped.
flip_nth_appendreal(s, nth) ==
    IF s.npan - nth < s.flipw
    THEN s
    ELSE LET sl == Slice(s.cstate, nth, nth + s.flipw)
             cs == [i \in 1..Len(s.cstate) |->
                       IF nth <= i - 1 /\ i - 1 < nth + Len(sl)
                       THEN ~ sl[i - nth]
                       ELSE s.cstate[i]]
         IN  [s EXCEPT !.cstate = cs, !.nflips = @ + 1, !.states = Append(@, cs)]

\* Challenge.flip_nth, for nth >= 0.
flip_nth(s, nth) ==
    IF s.npan - nth < s.flipw
    THEN [s EXCEPT !.states = Append(@, s.cstate)]
    ELSE LET sl == Slice(s.cstate, nth, nth + s.flipw)
             cs == [i \in 1..Len(s.cstate) |->
                       IF nth <= i - 1 /\ i - 1 < nth + Len(sl)
                       THEN ~ sl[i - nth]
                       ELSE s.cstate[i]]
         IN  [s EXCEPT !.cstate = cs, !.nflips = @ + 1, !.states = Append(@, cs)]

\* __init__ with the width test off by one (>= for >).
Challenge_ge(flipw, signs) ==
    LET cs == signs2bool(signs)
        s0 == [flipw    |-> flipw,
               cstate   |-> cs,
               npan     |-> Len(cs),
               states   |-> <<cs>>,
               nflips   |-> 0,
               solution |-> None]
        r  == is_solved(s0)
    IN  IF flipw >= s0.npan
        THEN (IF ~ r.ret THEN [r.self EXCEPT !.solution = Int_(-1)] ELSE r.self)
        ELSE s0

\* __init__ without the test for a flipper that is too wide.
Challenge_notest(flipw, signs) ==
    LET cs == signs2bool(signs)
    IN  [flipw    |-> flipw,
         cstate   |-> cs,
         npan     |-> Len(cs),
         states   |-> <<cs>>,
         nflips   |-> 0,
         solution |-> None]

\* Challenge.__init__
Challenge(flipw, signs) ==
    LET cs == signs2bool(signs)
        s0 == [flipw    |-> flipw,
               cstate   |-> cs,
               npan     |-> Len(cs),
               states   |-> <<cs>>,
               nflips   |-> 0,
               solution |-> None]
        r  == is_solved(s0)
    IN  IF flipw > s0.npan
        THEN (IF ~ r.ret THEN [r.self EXCEPT !.solution = Int_(-1)] ELSE r.self)
        ELSE s0

\* The index dumbsolver hands to flip_nth in one iteration of its loop, -1 when
\* the iteration finds the puzzle solved and flips nothing.
FirstOf(s) == IF is_solved(s).ret THEN -1 ELSE Index(s.cstate, FALSE)

\* The loop body without the test for a repeated state.
dumbsolver_body_norepeat(s) ==
    LET r1 == is_solved(s)
    IN  IF ~ r1.ret
        THEN LET first == Index(r1.self.cstate, FALSE)
                 s2    == flip_nth(r1.self, first)
                 r3    == is_solved(s2)
             IN  r3.self
        ELSE r1.self


\* The loop body looking for a repeat in self.states[:-2].
dumbsolver_body_prev(s) ==
    LET r1 == is_solved(s)
    IN  IF ~ r1.ret
        THEN LET first == Index(r1.self.cstate, FALSE)
                 s2    == flip_nth(r1.self, first)
                 r3    == is_solved(s2)
             IN  IF ~ r3.ret /\ In(r3.self.cstate, Slice(r3.self.states, 0, -2))
                 THEN [r3.self EXCEPT !.solution = Int_(-1)]
                 ELSE r3.self
        ELSE r1.self


\* The loop body looking for a repeat in the whole of self.states.
dumbsolver_body_whole(s) ==
    LET r1 == is_solved(s)
    IN  IF ~ r1.ret
        THEN LET first == Index(r1.self.cstate, FALSE)
                 s2    == flip_nth(r1.self, first)
                 r3    == is_solved(s2)
             IN  IF ~ r3.ret /\ In(r3.self.cstate, r3.self.states)
                 THEN [r3.self EXCEPT !.solution = Int_(-1)]
                 ELSE r3.self
        ELSE r1.self

\* One iteration of the while loop of dumbsolver.
dumbsolver_body(s) ==
    LET r1 == is_solved(s)
    IN  IF ~ r1.ret
        THEN LET first == Index(r1.self.cstate, FALSE)
                 s2    == flip_nth(r1.self, first)
                 r3    == is_solved(s2)
             IN  IF ~ r3.ret /\ In(r3.self.cstate, Slice(r3.self.states, 0, -1))
                 THEN [r3.self EXCEPT !.solution = Int_(-1)]
                 ELSE r3.self
        ELSE r1.self

----------------------------------------------------------------------------
Init ==
    /\ start \in SignStrings
    /\ \E flipw \in Widths : self = Challenge(flipw, start)
    /\ pc = "idle"
    /\ call = [op |-> "__init__", nth |-> -1]
    /\ iters = 0
    /\ nmanual = 0
    /\ ncalls = 0
    /\ nreal = 0

\* The caller calls is_solved().
IsSolved ==
    /\ pc = "idle"
    /\ self' = is_solved(self).self
    /\ call' = [op |-> "is_solved", nth |-> -1]
    /\ UNCHANGED <<pc, start, iters, nmanual, ncalls, nreal>>

\* The caller calls flip_nth(nth).
FlipNth ==
    /\ pc = "idle"
    /\ nmanual < MaxCalls
    /\ \E nth \in 0..self.npan :
          /\ self' = flip_nth(self, nth)
          /\ call' = [op |-> "flip_nth", nth |-> nth]
          /\ nreal' = IF nth + self.flipw <= self.npan THEN nreal + 1 ELSE nreal
    /\ nmanual' = nmanual + 1
    /\ ncalls' = ncalls + 1
    /\ UNCHANGED <<pc, start, iters>>

\* The caller calls dumbsolver(): control reaches the while loop.
DumbSolverEnter ==
    /\ pc = "idle"
    /\ pc' = "while"
    /\ iters' = 0
    /\ call' = [op |-> "dumbsolver", nth |-> -1]
    /\ UNCHANGED <<self, start, nmanual, ncalls, nreal>>

\* while self.solution is None: one iteration.
DumbSolverLoop ==
    /\ pc = "while"
    /\ self.solution = None
    /\ iters < MaxIters
    /\ self' = dumbsolver_body(self)
    /\ iters' = iters + 1
    /\ call' = [op |-> "dumbsolver", nth |-> FirstOf(self)]
    /\ ncalls' = IF FirstOf(self) >= 0 THEN ncalls + 1 ELSE ncalls
    /\ nreal' = IF FirstOf(self) >= 0 /\ FirstOf(self) + self.flipw <= self.npan
                THEN nreal + 1 ELSE nreal
    /\ UNCHANGED <<pc, start, nmanual>>

\* The loop condition fails: dumbsolver returns.
DumbSolverReturn ==
    /\ pc = "while"
    /\ self.solution # None
    /\ pc' = "idle"
    /\ call' = [op |-> "dumbsolver", nth |-> -1]
    /\ UNCHANGED <<self, start, iters, nmanual, ncalls, nreal>>

Next ==
    \/ IsSolved
    \/ FlipNth
    \/ DumbSolverEnter
    \/ DumbSolverLoop
    \/ DumbSolverReturn

Spec == Init /\ [][Next]_vars

\* Construction followed by calls of dumbsolver only, as the driver in __main__
\* uses an instance.  dumbsolver is one sequential call: once entered, its loop
\* keeps running until its condition fails, and then it returns.
SolverNext ==
    \/ DumbSolverEnter
    \/ DumbSolverLoop
    \/ DumbSolverReturn

SolverSpec ==
    /\ Init
    /\ [][SolverNext]_vars
    /\ WF_vars(DumbSolverLoop)
    /\ WF_vars(DumbSolverReturn)

----------------------------------------------------------------------------
\* What the puzzle allows, stated without the code: the orientations reachable
\* from c0 by flips of w adjacent pancakes that fit on the griddle.

\* The orientations the instance was constructed with.
InitialOrientations == signs2bool(start)

AllUp(n) == [i \in 1..n |-> TRUE]

\* c with the w pancakes at the (0-based) indices i .. i + w - 1 turned over.
Turned(c, i, w) == [j \in 1..Len(c) |-> IF i < j /\ j <= i + w THEN ~ c[j] ELSE c[j]]

\* The indices at which a flipper of width w fits on n pancakes.
ValidIndices(n, w) == {i \in 0..(n - 1) : i + w <= n}

\* Orientations reachable from c0 by at most k valid flips.
RECURSIVE ReachWithin(_, _, _)
ReachWithin(c0, w, k) ==
    IF k = 0 THEN {c0}
    ELSE LET R == ReachWithin(c0, w, k - 1)
         IN  R \cup {Turned(c, i, w) : c \in R, i \in ValidIndices(Len(c0), w)}

\* Orientations reachable from c0 by any number of valid flips.
Reachable(c0, w) == ReachWithin(c0, w, 2 ^ Len(c0))

\* dumbsolver has returned, and it was the only method to flip anything.
SolverRan == pc = "idle" /\ call.op = "dumbsolver" /\ nmanual = 0

Solved == self.solution # None /\ self.solution[1] >= 0

Impossible == self.solution = Int_(-1)

----------------------------------------------------------------------------
\* C1: for 1 <= W <= N, when dumbsolver ends with solution = k >= 0, all-up is
\* reachable from the initial orientations by k valid flips and by no fewer.
C1_SolutionIsMinimum ==
    (SolverRan /\ 1 <= self.flipw /\ self.flipw <= self.npan /\ Solved) =>
        LET k == self.solution[1]
        IN  /\ AllUp(self.npan) \in ReachWithin(InitialOrientations, self.flipw, k)
            /\ k > 0 => AllUp(self.npan) \notin
                            ReachWithin(InitialOrientations, self.flipw, k - 1)

\* dumbsolver solved a puzzle of three pancakes with a flipper of two in two flips.
C1_Witness ==
    /\ SolverRan
    /\ self.npan = 3 /\ self.flipw = 2
    /\ self.solution = Int_(2)

\* C2: for W >= 1, construction followed by dumbsolver ends Impossible exactly
\* when no sequence of valid flips reaches all-up, and ends Solved otherwise.
C2_ImpossibleIffUnreachable ==
    (SolverRan /\ self.flipw >= 1) =>
        LET reach == AllUp(self.npan) \in Reachable(InitialOrientations, self.flipw)
        IN  /\ Impossible <=> ~ reach
            /\ reach => Solved

\* dumbsolver itself (not the constructor) found a puzzle impossible.
C2_Witness ==
    /\ SolverRan
    /\ self.flipw >= 1 /\ self.flipw <= self.npan
    /\ Impossible
    /\ AllUp(self.npan) \notin Reachable(InitialOrientations, self.flipw)
\* C3: dumbsolver terminates with a terminal outcome, within 2^N iterations of
\* its loop.
C3_Terminates ==
    /\ [](iters <= 2 ^ self.npan)
    /\ [](pc = "while" => <>(pc = "idle" /\ self.solution # None))

\* dumbsolver returned after three iterations of its loop.
C3_Witness ==
    /\ pc = "idle" /\ call.op = "dumbsolver"
    /\ iters = 3
    /\ self.solution # None
\* C4: for 1 <= W <= N, an instance constructed all face-up has solution 0 and
\* nflips 0 as soon as construction ends.
C4_SolvedAtConstruction ==
    (/\ call.op = "__init__"
     /\ self.npan >= 1 /\ 1 <= self.flipw /\ self.flipw <= self.npan
     /\ All(self.cstate)) =>
        self.solution = Int_(0) /\ self.nflips = 0

\* C5: for W > N >= 1, construction sets solution to 0 when the orientations are
\* all face-up and to -1 otherwise, without a flip, and neither construction nor
\* dumbsolver afterwards changes the orientations, nflips or the history.
C5_TooWideSettledAtConstruction ==
    (self.npan >= 1 /\ self.flipw > self.npan /\ nmanual = 0) =>
        /\ self.solution =
              (IF All(InitialOrientations) THEN Int_(0) ELSE Int_(-1))
        /\ self.nflips = 0
        /\ self.cstate = InitialOrientations
        /\ self.states = <<InitialOrientations>>

\* dumbsolver has returned on an instance whose flipper is too wide and whose
\* pancakes are not all face-up.
C5_Witness ==
    /\ SolverRan
    /\ self.npan >= 1 /\ self.flipw > self.npan
    /\ ~ All(InitialOrientations)
    /\ Impossible

\* C6: flip_nth(nth) with nth + W <= N inverts exactly the entries nth ..
\* nth + W - 1, adds 1 to nflips, appends the new orientations to the history
\* and changes neither flipw, npan nor an earlier history entry.
C6_ValidFlip ==
    [][(call'.nth >= 0 /\ call'.nth + self.flipw <= self.npan) =>
          /\ self'.cstate = Turned(self.cstate, call'.nth, self.flipw)
          /\ self'.nflips = self.nflips + 1
          /\ self'.states = Append(self.states, self'.cstate)
          /\ self'.flipw = self.flipw
          /\ self'.npan = self.npan
          /\ Len(self'.cstate) = self.npan]_vars

\* The caller's first flip_nth, at index 1 with a flipper of two on three
\* pancakes, has been applied.
C6_Witness ==
    /\ call.op = "flip_nth" /\ call.nth = 1
    /\ self.flipw = 2 /\ self.npan = 3
    /\ self.nflips = 1 /\ Len(self.states) = 2

\* C7: flip_nth(nth) with nth + W > N changes neither the orientations nor
\* nflips, and appends the unchanged orientations to the history.
C7_EdgeFlipIsNoOp ==
    [][(call'.nth >= 0 /\ call'.nth + self.flipw > self.npan) =>
          /\ self'.cstate = self.cstate
          /\ self'.nflips = self.nflips
          /\ self'.states = Append(self.states, self.cstate)]_vars

\* The caller's first flip_nth ran past the right edge although the flipper
\* fits on the griddle.
C7_Witness ==
    /\ call.op = "flip_nth"
    /\ call.nth + self.flipw > self.npan /\ self.flipw <= self.npan
    /\ Len(self.states) = 2 /\ self.nflips = 0

\* C8: once solution is not None, no call of is_solved, flip_nth or dumbsolver
\* changes it (stated for the instances with N >= 1 and W >= 1).
C8_OutcomeSetOnce ==
    [][(self.npan >= 1 /\ self.flipw >= 1 /\ self.solution # None) =>
          self'.solution = self.solution]_vars

\* C9: once solution is not None, no call of is_solved, flip_nth or dumbsolver
\* changes the orientations (stated for the instances with N >= 1 and W >= 1).
C9_ImmutableOnceTerminal ==
    [][(self.npan >= 1 /\ self.flipw >= 1 /\ self.solution # None) =>
          self'.cstate = self.cstate]_vars

\* C10: the flipper width of every instance is at least 1.
C10_WidthAtLeastOne == self.flipw >= 1

\* The signs of a sign string, in order, the other characters left out.
SignsOnly(signs) == SelectSeq(signs, LAMBDA c : c \in {"+", "-"})

\* C11: the instance is constructed with the orientations read off the sign
\* string from left to right, '+' as TRUE and '-' as FALSE, every other
\* character skipped, and with N their number; a string of signs only gives one
\* orientation per character.
C11_OrientationsFromSigns ==
    call.op = "__init__" =>
        LET kept == SignsOnly(start)
        IN  /\ self.npan = Len(kept)
            /\ Len(self.cstate) = Len(kept)
            /\ \A i \in 1..Len(kept) : self.cstate[i] <=> (kept[i] = "+")
            /\ (\A i \in 1..Len(start) : start[i] \in {"+", "-"}) =>
                  /\ self.npan = Len(start)
                  /\ \A i \in 1..Len(start) : self.cstate[i] <=> (start[i] = "+")

\* An instance constructed from a string with an invalid character between
\* two signs.
C11_Witness ==
    /\ call.op = "__init__"
    /\ start = <<"+", "x", "-">>
    /\ self.cstate = <<TRUE, FALSE>>
    /\ self.npan = 2

\* The (0-based) index of the leftmost face-down pancake of c.
LeftmostDown(c) ==
    CHOOSE i \in 0..(Len(c) - 1) : ~ c[i + 1] /\ \A j \in 1..i : c[j]

\* C12 as claimed: dumbsolver never hands flip_nth an index i with i + W > N.
C12_SolverNeverFlipsPastEdge ==
    (call.op = "dumbsolver" /\ call.nth >= 0) => call.nth + self.flipw <= self.npan

\* C12 as amended: when dumbsolver hands flip_nth an index i with i + W > N,
\* that iteration ends with solution -1, so it is the last of the call.
C12_EdgeAttemptEndsSolver ==
    (call.op = "dumbsolver" /\ call.nth >= 0 /\ call.nth + self.flipw > self.npan) =>
        Impossible

\* dumbsolver's first iteration tried a flip past the edge with a flipper that
\* fits on the griddle.
C12_Witness ==
    /\ pc = "while" /\ call.op = "dumbsolver"
    /\ call.nth >= 0 /\ call.nth + self.flipw > self.npan
    /\ self.flipw <= self.npan
    /\ iters = 1 /\ self.nflips = 0
    /\ Impossible

\* C13: when dumbsolver's loop is at an unsolved state whose leftmost face-down
\* index i has i + W > N, the iteration sets solution to -1 and leaves the
\* orientations and nflips as they were.
C13_OutOfReachBecomesImpossible ==
    [][(/\ pc = "while" /\ self.solution = None
        /\ ~ All(self.cstate)
        /\ LeftmostDown(self.cstate) + self.flipw > self.npan) =>
          /\ self'.solution = Int_(-1)
          /\ self'.cstate = self.cstate
          /\ self'.nflips = self.nflips]_vars

\* dumbsolver made a real flip and then found the remaining face-down pancakes
\* out of reach.
C13_Witness ==
    /\ call.op = "dumbsolver"
    /\ call.nth >= 0 /\ call.nth + self.flipw > self.npan
    /\ nmanual = 0 /\ self.nflips >= 1
    /\ Impossible

\* C14: an iteration of dumbsolver that flips does so at the leftmost face-down
\* index; afterwards solution is nflips when all are face-up, else -1 when the
\* orientations equal a history entry other than the one just appended, else
\* still None with the loop going on.
C14_IterationOutcome ==
    [][(call'.op = "dumbsolver" /\ call'.nth >= 0) =>
          /\ call'.nth = LeftmostDown(self.cstate)
          /\ IF All(self'.cstate)
             THEN self'.solution = Int_(self'.nflips)
             ELSE IF \E k \in 1..(Len(self'.states) - 1) :
                         self'.states[k] = self'.cstate
                  THEN self'.solution = Int_(-1)
                  ELSE self'.solution = None /\ pc' = "while"]_vars

\* An iteration of dumbsolver flipped, and the loop goes on.
C14_Witness ==
    /\ pc = "while" /\ call.op = "dumbsolver"
    /\ call.nth >= 0
    /\ self.solution = None

\* C15: the first history entry is the orientations at construction, the last
\* one is the current orientations, and the history has one entry more than
\* flip_nth has been called (whether it flipped or not).
C15_History ==
    /\ self.states[1] = InitialOrientations
    /\ self.states[Len(self.states)] = self.cstate
    /\ Len(self.states) = 1 + ncalls

\* flip_nth has been called three times, not every time with a run that
\* fitted, and the orientations differ from the initial ones.
C15_Witness ==
    /\ ncalls = 3 /\ nreal < ncalls /\ nreal >= 1
    /\ self.cstate # InitialOrientations

\* C16: whenever solution is k >= 0, k is nflips, and nflips is the number of
\* flip_nth calls whose run fitted (stated for the instances with N >= 1 and
\* W >= 1).
C16_SolutionIsFlipCount ==
    (self.npan >= 1 /\ self.flipw >= 1 /\ Solved) =>
        /\ self.solution[1] = self.nflips
        /\ self.nflips = nreal

\* The step is an iteration of dumbsolver, with W >= 1, that really flips.
SolverRealFlip ==
    /\ call'.op = "dumbsolver"
    /\ call'.nth >= 0 /\ call'.nth + self.flipw <= self.npan
    /\ self.flipw >= 1

\* What C17 says of a real flip of dumbsolver: every pancake up to the flipped
\* index is face-up afterwards, so the leftmost face-down index has grown; the
\* new orientations equal no earlier history entry; and the real flips of the
\* call number at most N - W + 1.
RealFlipProgresses ==
    /\ \A j \in 1..(call'.nth + 1) : self'.cstate[j]
    /\ All(self'.cstate) \/ LeftmostDown(self'.cstate) > LeftmostDown(self.cstate)
    /\ ~ In(self'.cstate, self.states)
    /\ iters' <= self.npan - self.flipw + 1

\* C17 as claimed: every real flip of dumbsolver progresses, whatever was
\* called on the instance before.
C17_RealFlipsProgress ==
    [][SolverRealFlip => RealFlipProgresses]_vars

\* C17 as amended: on an instance on which the caller has not called flip_nth,
\* every real flip of dumbsolver progresses, and nflips counts exactly them.
C17_RealFlipsProgressFromConstruction ==
    [][(SolverRealFlip /\ nmanual = 0) =>
          RealFlipProgresses /\ self'.nflips = iters']_vars

\* dumbsolver, alone on the instance, has made two real flips and goes on.
C17_Witness ==
    /\ pc = "while" /\ call.op = "dumbsolver" /\ nmanual = 0
    /\ call.nth = 1 /\ call.nth + self.flipw <= self.npan
    /\ self.flipw >= 1
    /\ iters = 2 /\ self.nflips = 2
    /\ self.solution = None

\* The step is an iteration of dumbsolver, with W >= 1, that sets solution to -1.
SolverGivesUp ==
    /\ call'.op = "dumbsolver"
    /\ self.flipw >= 1
    /\ self.solution = None /\ self'.solution = Int_(-1)

\* What C18 says of such an iteration: its flip attempt ran past the edge, and
\* the one earlier history entry equal to the orientations is the snapshot just
\* before the one appended.
GaveUpOnNoOp ==
    /\ call'.nth >= 0 /\ call'.nth + self.flipw > self.npan
    /\ \A k \in 1..(Len(self'.states) - 1) :
          self'.states[k] = self'.cstate <=> k = Len(self'.states) - 1

\* C18 as claimed: dumbsolver's repeated-state test fires only after a no-op
\* attempt, whatever was called on the instance before.
C18_RepeatOnlyAfterNoOp ==
    [][SolverGivesUp => GaveUpOnNoOp]_vars

\* C18 as amended: on an instance on which the caller has not called flip_nth,
\* dumbsolver's repeated-state test fires only after a no-op attempt.
C18_RepeatOnlyAfterNoOpFromConstruction ==
    [][(SolverGivesUp /\ nmanual = 0) => GaveUpOnNoOp]_vars

\* dumbsolver, alone on the instance, gave up after two real flips.
C18_Witness ==
    /\ pc = "while" /\ call.op = "dumbsolver" /\ nmanual = 0
    /\ self.flipw >= 1
    /\ self.nflips = 2 /\ Len(self.states) = 4
    /\ Impossible
====
